---- MODULE Spec2Model ----
(***************************************************************************)
(* A model of idiot, a minimal git-like object store (src/main.rs,         *)
(* src/tree.rs).  Byte strings are sequences of numbers 0..255, Option<T>  *)
(* is a sequence of length 0 (None) or 1 (Some), and a panic of a          *)
(* function that returns a GitObject is the empty Option.                  *)
(***************************************************************************)
EXTENDS Integers, Sequences, FiniteSets, TLC

\* ------------------------------------------------------------------ bytes

NUL == 0
LF == 10
SP == 32
HASHMARK == 35
PLUS == 43
DOT == 46
SLASH == 47
SHA_SIZE == 20

None == << >>
Some(x) == << x >>
IsSome(o) == Len(o) = 1
Unwrap(o) == o[1]

\* Literals of the program, as bytes.
TREE_WORD == << 116, 114, 101, 101 >>
BLOB_WORD == << 98, 108, 111, 98 >>
NOT_REAL_YET == << 78, 79, 84, 32, 82, 69, 65, 76, 32, 89, 69, 84 >>
GIT_PATTERN == << 46, 103, 105, 116, 47 >>
IDIOT_PATTERN == << 46, 105, 100, 105, 111, 116, 47 >>
IDIOT == << 46, 105, 100, 105, 111, 116 >>
GITIGNORE == << 46, 103, 105, 116, 105, 103, 110, 111, 114, 101 >>
CUR_DIR == << 46, 47 >>
HEAD_CONTENT ==
    << 114, 101, 102, 58, 32, 114, 101, 102, 115, 47, 104, 101, 97, 100, 115, 47,
       109, 97, 115, 116, 101, 114, 10 >>

FileBlob == 100644
ExeBlob == 100755
SubDir == 40000
SubMod == 160000
SymLink == 120000
Modes == { FileBlob, ExeBlob, SubDir, SubMod, SymLink }

RECURSIVE Flatten(_)
Flatten(ss) == IF ss = << >> THEN << >> ELSE Head(ss) \o Flatten(Tail(ss))

Drop(s, n) == SubSeq(s, n + 1, Len(s))
Take(s, n) == SubSeq(s, 1, n)
Reverse(s) == [ i \in 1 .. Len(s) |-> s[Len(s) + 1 - i] ]
SeqRange(s) == { s[i] : i \in 1 .. Len(s) }

\* slice::ends_with / str::ends_with: plain suffix of the bytes.
BytesEndWith(s, suf) ==
    /\ Len(suf) <= Len(s)
    /\ SubSeq(s, Len(s) - Len(suf) + 1, Len(s)) = suf

\* Index of the first occurrence of byte b in s, 0 when there is none.
FindFirst(s, b) ==
    IF \A i \in 1 .. Len(s) : s[i] # b THEN 0
    ELSE CHOOSE i \in 1 .. Len(s) : s[i] = b /\ \A j \in 1 .. (i - 1) : s[j] # b

\* slice::split(|ch| ch == b): n separators give n + 1 pieces, empty ones kept.
RECURSIVE Split(_, _)
SplitAt(s, b, i) ==
    IF i = 0 THEN << s >> ELSE << Take(s, i - 1) >> \o Split(Drop(s, i), b)
Split(s, b) == SplitAt(s, b, FindFirst(s, b))

\* slice::splitn(2, |ch| ch == b): cut at the first separator only.
CutAt(s, i) == IF i = 0 THEN << s >> ELSE << Take(s, i - 1), Drop(s, i) >>
SplitN2(s, b) == CutAt(s, FindFirst(s, b))

\* Ord for str / [u8]: lexicographic on bytes. -1 Less, 0 Equal, 1 Greater.
Less == -1
Equal == 0
Greater == 1
RECURSIVE CmpBytes(_, _)
CmpBytes(a, b) ==
    IF a = << >> /\ b = << >> THEN Equal
    ELSE IF a = << >> THEN Less
    ELSE IF b = << >> THEN Greater
    ELSE IF Head(a) < Head(b) THEN Less
    ELSE IF Head(a) > Head(b) THEN Greater
    ELSE CmpBytes(Tail(a), Tail(b))

\* ----------------------------------------------------------------- numbers

\* format!("{}", n) of a usize: decimal digits, no padding.
RECURSIVE ToDecimal(_)
ToDecimal(n) ==
    IF n < 10 THEN << 48 + n >> ELSE ToDecimal(n \div 10) \o << 48 + (n % 10) >>

IsDigit(b) == b >= 48 /\ b <= 57

RECURSIVE DigitsValue(_, _)
DigitsValue(s, acc) ==
    IF s = << >> THEN acc ELSE DigitsValue(Tail(s), acc * 10 + (Head(s) - 48))

\* The longest digit string the model parses: every number the model writes
\* has at most six digits, and nine keep the value inside TLC's integers.
MaxDigits == 9

\* usize_from_bytes: String::from_utf8 then str::parse::<usize>, which takes an
\* optional leading '+' and then one or more ASCII digits.  Err is None.
ParseDigits(digits) ==
    IF /\ digits # << >>
       /\ \A i \in 1 .. Len(digits) : IsDigit(digits[i])
       /\ Len(digits) <= MaxDigits
    THEN Some(DigitsValue(digits, 0))
    ELSE None
usize_from_bytes(bytes) ==
    ParseDigits(IF bytes # << >> /\ Head(bytes) = PLUS THEN Tail(bytes) ELSE bytes)

\* ------------------------------------------------------------------- UTF-8

IsCont(s, i) == i <= Len(s) /\ s[i] >= 128 /\ s[i] <= 191
InRange(s, i, lo, hi) == i <= Len(s) /\ s[i] >= lo /\ s[i] <= hi

\* Length of the valid UTF-8 scalar that starts at s[i], 0 when none does.
Utf8Width(s, i) ==
    LET b == s[i]
    IN  IF b < 128 THEN 1
        ELSE IF b >= 194 /\ b <= 223 THEN (IF IsCont(s, i + 1) THEN 2 ELSE 0)
        ELSE IF b = 224
            THEN (IF InRange(s, i + 1, 160, 191) /\ IsCont(s, i + 2) THEN 3 ELSE 0)
        ELSE IF b = 237
            THEN (IF InRange(s, i + 1, 128, 159) /\ IsCont(s, i + 2) THEN 3 ELSE 0)
        ELSE IF b >= 225 /\ b <= 239
            THEN (IF IsCont(s, i + 1) /\ IsCont(s, i + 2) THEN 3 ELSE 0)
        ELSE IF b = 240
            THEN (IF InRange(s, i + 1, 144, 191) /\ IsCont(s, i + 2) /\ IsCont(s, i + 3)
                  THEN 4 ELSE 0)
        ELSE IF b = 244
            THEN (IF InRange(s, i + 1, 128, 143) /\ IsCont(s, i + 2) /\ IsCont(s, i + 3)
                  THEN 4 ELSE 0)
        ELSE IF b >= 241 /\ b <= 243
            THEN (IF IsCont(s, i + 1) /\ IsCont(s, i + 2) /\ IsCont(s, i + 3)
                  THEN 4 ELSE 0)
        ELSE 0

\* Length of the maximal invalid prefix at s[i] (Utf8Chunks): the bytes of a
\* scalar that starts well and breaks off, at least one byte.
Utf8BadLen(s, i) ==
    LET b == s[i]
        second ==
            IF b = 224 THEN InRange(s, i + 1, 160, 191)
            ELSE IF b = 237 THEN InRange(s, i + 1, 128, 159)
            ELSE IF b = 240 THEN InRange(s, i + 1, 144, 191)
            ELSE IF b = 244 THEN InRange(s, i + 1, 128, 143)
            ELSE IF b >= 225 /\ b <= 243 THEN IsCont(s, i + 1)
            ELSE FALSE
    IN  IF ~second THEN 1
        ELSE IF b >= 240 /\ IsCont(s, i + 2) THEN 3
        ELSE 2

RECURSIVE IsUtf8From(_, _)
Utf8Step(s, i, w) == IF w = 0 THEN FALSE ELSE IsUtf8From(s, i + w)
IsUtf8From(s, i) == IF i > Len(s) THEN TRUE ELSE Utf8Step(s, i, Utf8Width(s, i))

\* String::from_utf8(..).is_ok()
IsUtf8(s) == IsUtf8From(s, 1)

REPLACEMENT == << 239, 191, 189 >>

\* OsStr::to_string_lossy: every maximal invalid run becomes U+FFFD.
RECURSIVE LossyFrom(_, _)
LossyStep(s, i, w) ==
    IF w > 0 THEN SubSeq(s, i, i + w - 1) \o LossyFrom(s, i + w)
    ELSE REPLACEMENT \o LossyFrom(s, i + Utf8BadLen(s, i))
LossyFrom(s, i) == IF i > Len(s) THEN << >> ELSE LossyStep(s, i, Utf8Width(s, i))

to_string_lossy(s) == LossyFrom(s, 1)

\* ----------------------------------------------------------------- objects

\* GitObject { mode, obj_type, sha }, the fields of the ObjType variants laid
\* flat: a Blob has path and content, a Tree has path, size and objs.
Blob(mode, path, content, sha) ==
    [ mode |-> mode, tag |-> "Blob", path |-> Some(path), content |-> content,
      size |-> 0, objs |-> << >>, sha |-> sha ]
Tree(mode, path, size, objs, sha) ==
    [ mode |-> mode, tag |-> "Tree", path |-> path, content |-> << >>,
      size |-> size, objs |-> objs, sha |-> sha ]
Commit ==
    [ mode |-> SubDir, tag |-> "Commit", path |-> None, content |-> << >>,
      size |-> 0, objs |-> << >>, sha |-> None ]

\* The pattern  Blob { path, .. } | Tree { path: Some(path), .. }.
HasPath(o) == o.tag = "Blob" \/ (o.tag = "Tree" /\ IsSome(o.path))

\* Mode::new: the mode of a numeric code, a panic (None) for any other number.
ModeNew(kind) == IF kind \in Modes THEN Some(kind) ELSE None

\* impl Ord for GitObject: the arms of the match, in order.
cmp(a, b) ==
    IF HasPath(a) /\ HasPath(b) THEN CmpBytes(Unwrap(a.path), Unwrap(b.path))
    ELSE IF a.tag = "Blob" /\ b.tag = "Tree" THEN Greater
    ELSE IF a.tag = "Blob" /\ b.tag = "Commit" THEN Greater
    ELSE IF a.tag = "Tree" /\ ~IsSome(a.path) /\ b.tag = "Tree" THEN Less
    ELSE IF a.tag = "Tree" /\ b.tag = "Tree" /\ ~IsSome(b.path) THEN Greater
    ELSE IF a.tag = "Tree" /\ b.tag = "Blob" THEN Less
    ELSE IF a.tag = "Tree" /\ b.tag = "Commit" THEN Greater
    ELSE IF a.tag = "Commit" /\ b.tag = "Blob" THEN Less
    ELSE IF a.tag = "Commit" /\ b.tag = "Tree" THEN Less
    ELSE Equal

\* Vec::sort, a stable sort by cmp: an element goes after every element that
\* is not Greater than it.
RECURSIVE InsertSorted(_, _)
InsertSorted(sorted, o) ==
    IF sorted = << >> THEN << o >>
    ELSE IF cmp(Head(sorted), o) = Greater THEN << o >> \o sorted
    ELSE << Head(sorted) >> \o InsertSorted(Tail(sorted), o)

RECURSIVE sort(_)
sort(objs) ==
    IF objs = << >> THEN << >>
    ELSE InsertSorted(sort(Take(objs, Len(objs) - 1)), objs[Len(objs)])

\* GitObject::tree_content_bytes, for an object with a path (the other
\* variants are todo!()):  "<mode> <path>\0" then the sha, or one NUL when the
\* sha is None.
tree_content_bytes(o) ==
    ToDecimal(o.mode) \o << SP >> \o Unwrap(o.path) \o << NUL >>
        \o (IF IsSome(o.sha) THEN Unwrap(o.sha) ELSE << NUL >>)

\* The entries of a parsed tree: the first from tree_bytes[1], tree_bytes[2],
\* the others from the windows of two of tree_bytes[2..].  None when a slice
\* or an index is out of range (a panic).
TreeEntryBytes(tree_bytes) ==
    LET n == Len(tree_bytes)
    IN  IF n < 3 THEN None
        ELSE IF \E i \in 3 .. n : Len(tree_bytes[i]) < SHA_SIZE THEN None
        ELSE Some(
            << tree_bytes[2] \o << NUL >> \o Take(tree_bytes[3], SHA_SIZE) >>
            \o [ k \in 1 .. (n - 3) |->
                   Drop(tree_bytes[k + 2], SHA_SIZE) \o << NUL >>
                       \o Take(tree_bytes[k + 3], SHA_SIZE) ])

\* The else branch of from_bytes: one entry, "<mode> <path>\0<sha>".  The
\* mode must be a number Mode::new knows, the rest must split at NUL into
\* exactly a name and a sha, and the name must be UTF-8; a sha of any length
\* but zero is kept as it is.
ModeOfNumber(m) == IF IsSome(m) THEN ModeNew(Unwrap(m)) ELSE None
EntryOf(mode, parts) ==
    IF ~IsSome(mode) \/ Len(parts) # 2 THEN None
    ELSE IF ~IsUtf8(parts[1]) THEN None
    ELSE Some(Blob(Unwrap(mode), parts[1], NOT_REAL_YET,
                   IF parts[2] # << >> THEN Some(parts[2]) ELSE None))
EntryFromSplit(split) ==
    EntryOf(ModeOfNumber(usize_from_bytes(split[1])),
            IF Len(split) = 2 THEN Split(split[2], NUL) ELSE << >>)
EntryFromBytes(bytes) == EntryFromSplit(SplitN2(bytes, SP))

\* GitObject::from_bytes.  Some(object), or None when the call panics.
RECURSIVE from_bytes(_)
TreeFromObjs(size, objs) ==
    IF \E i \in 1 .. Len(objs) : ~IsSome(objs[i]) THEN None
    ELSE Some(Tree(SubDir, None, size, [ i \in 1 .. Len(objs) |-> Unwrap(objs[i]) ], None))
ParsedEntries(entries) == [ i \in 1 .. Len(entries) |-> from_bytes(entries[i]) ]
TreeFromParts(size, entries) ==
    IF ~IsSome(size) \/ ~IsSome(entries) THEN None
    ELSE TreeFromObjs(Unwrap(size), ParsedEntries(Unwrap(entries)))
FromHeader(bytes, tree_bytes, header) ==
    IF Len(header) = 2 /\ header[1] = TREE_WORD
    THEN TreeFromParts(usize_from_bytes(header[2]), TreeEntryBytes(tree_bytes))
    ELSE EntryFromBytes(bytes)
FromSplit(bytes, tree_bytes) == FromHeader(bytes, tree_bytes, Split(tree_bytes[1], SP))
from_bytes(bytes) == FromSplit(bytes, Split(bytes, NUL))

\* ------------------------------------------------------- hash and compress

\* Sum of s[j] * j over the bytes lo..hi of s, by halves: the mix the digest
\* below is cut from.
RECURSIVE WeightedSum(_, _, _)
WeightedSum(s, lo, hi) ==
    IF lo > hi THEN 0
    ELSE IF lo = hi THEN (s[lo] * lo) % 65521
    ELSE (WeightedSum(s, lo, (lo + hi) \div 2)
              + WeightedSum(s, ((lo + hi) \div 2) + 1, hi)) % 65521

\* Sha1::new().update(b).finalize(): a fixed function of the bytes with a
\* 20 byte result; every byte value, 0x00 included, can occur in it.
Digest(mix) == [ i \in 1 .. SHA_SIZE |-> (mix * (2 * i + 1) + 13 * i) % 256 ]
Sha1(b) == Digest((WeightedSum(b, 1, Len(b)) + 7 * Len(b)) % 65521)

RECURSIVE ByteSum(_, _, _)
ByteSum(s, lo, hi) ==
    IF lo > hi THEN 0
    ELSE IF lo = hi THEN s[lo]
    ELSE ByteSum(s, lo, (lo + hi) \div 2) + ByteSum(s, ((lo + hi) \div 2) + 1, hi)
Adler(s) == (1 + ByteSum(s, 1, Len(s))) % 251

ZLIB_HEADER == << 120, 156 >>

\* compress_obj / ZlibEncoder: a zlib stream, the two header bytes, the
\* payload and its checksum.
compress_obj(bytes) == ZLIB_HEADER \o bytes \o << Adler(bytes) >>

\* decomp_obj / ZlibDecoder: the payload of a well-formed stream, None (an
\* io::Error) for anything else.
decomp_obj(bytes) ==
    LET n == Len(bytes)
    IN  IF /\ n >= 3
           /\ Take(bytes, 2) = ZLIB_HEADER
           /\ bytes[n] = Adler(SubSeq(bytes, 3, n - 1))
        THEN Some(SubSeq(bytes, 3, n - 1))
        ELSE None

\* compress_and_hash: <<sha, enc_content>>, the sha taken of `bytes`.
compress_and_hash(bytes) == << Sha1(bytes), compress_obj(bytes) >>

HexDigit(n) == IF n < 10 THEN 48 + n ELSE 87 + n

\* hex::encode
HexEncode(bytes) ==
    Flatten([ i \in 1 .. Len(bytes) |->
                << HexDigit(bytes[i] \div 16), HexDigit(bytes[i] % 16) >> ])

\* sha_hash.split_at(2): <<dir, file>>, the key of an object in OBJS.
SplitAt2(hex) == << Take(hex, 2), Drop(hex, 2) >>

\* ------------------------------------------------------------------- paths

\* Path::components: RootDir is "/", a leading "." is CurDir, empty and other
\* "." pieces vanish.
RECURSIVE ComponentsFrom(_, _, _)
ComponentsFrom(pieces, i, rooted) ==
    IF i > Len(pieces) THEN << >>
    ELSE IF pieces[i] = << >> \/ (pieces[i] = << DOT >> /\ (i > 1 \/ rooted))
        THEN ComponentsFrom(pieces, i + 1, rooted)
    ELSE << pieces[i] >> \o ComponentsFrom(pieces, i + 1, rooted)

Components(p) ==
    LET rooted == p # << >> /\ p[1] = SLASH
    IN  (IF rooted THEN << << SLASH >> >> ELSE << >>)
            \o ComponentsFrom(Split(p, SLASH), 1, rooted)

IsPrefixSeq(pre, s) == Len(pre) <= Len(s) /\ Take(s, Len(pre)) = pre

\* Path::ends_with: iter_after over the reversed components of both.
PathEndsWith(p, child) ==
    IsPrefixSeq(Reverse(Components(child)), Reverse(Components(p)))

\* Path::join of a directory and an entry name.
Join(dir, name) ==
    IF dir # << >> /\ dir[Len(dir)] = SLASH THEN dir \o name
    ELSE dir \o << SLASH >> \o name

\* path.components().last().unwrap().as_os_str().to_string_lossy()
LastOf(c) == c[Len(c)]
LastComponentString(p) == to_string_lossy(LastOf(Components(p)))

\* ------------------------------------------------------------------ ignore

IsSpace(b) == b \in { 9, 10, 11, 12, 13, SP }

RECURSIVE TrimStart(_)
TrimStart(s) == IF s # << >> /\ IsSpace(Head(s)) THEN TrimStart(Tail(s)) ELSE s

\* str::trim
Trim(s) == Reverse(TrimStart(Reverse(TrimStart(s))))

\* str::lines: cut at LF, a final empty piece dropped, a trailing CR dropped.
StripCr(line) ==
    IF line # << >> /\ line[Len(line)] = 13 THEN Take(line, Len(line) - 1) ELSE line
LinesOf(pieces) ==
    IF pieces[Len(pieces)] = << >>
    THEN [ i \in 1 .. (Len(pieces) - 1) |-> StripCr(pieces[i]) ]
    ELSE [ i \in 1 .. Len(pieces) |-> StripCr(pieces[i]) ]
Lines(s) == LinesOf(Split(s, LF))

\* IGNORE: ".git/", ".idiot/" and the trimmed lines of ./.gitignore that are
\* neither empty nor comments; a .gitignore that cannot be read as a string
\* adds nothing.
IGNORE(cwd) ==
    LET readable ==
            /\ GITIGNORE \in DOMAIN cwd.entries
            /\ cwd.entries[GITIGNORE].kind = "file"
            /\ IsUtf8(cwd.entries[GITIGNORE].content)
        pats == IF readable
                THEN { Trim(l) : l \in SeqRange(Lines(cwd.entries[GITIGNORE].content)) }
                ELSE { }
    IN  { GIT_PATTERN, IDIOT_PATTERN }
            \cup { pat \in pats : pat # << >> /\ Head(pat) # HASHMARK }

\* A match on the text of the path instead: str::ends_with, not Path::ends_with.
text_in_ignore(p, ignore) == \E s \in ignore : BytesEndWith(p, s)

path_in_ignore(p, ignore) == \E s \in ignore : PathEndsWith(p, s)

\* -------------------------------------------------------------- tree builder

\* The names of the model's directory entries: "a", "ba", ".git", and two
\* names that are not UTF-8 (0xFF, 0xFE), as Unix file names may be.
NAME_A == << 97 >>
NAME_BA == << 98, 97 >>
NAME_GIT == << 46, 103, 105, 116 >>
NAME_FF == << 255 >>
NAME_FE == << 254 >>

\* One listing of every name.  fs::read_dir yields the entries of a directory
\* in an order the program does not control: an order is a rotation of the
\* listing, forwards or backwards, cut down to the names of the directory,
\* which gives every order of a directory of up to three entries.
NameListing == << NAME_A, NAME_BA, NAME_GIT, NAME_FF, NAME_FE, GITIGNORE, IDIOT >>
OrderedNames(order) ==
    LET n == Len(NameListing)
        rot == [ i \in 1 .. n |-> NameListing[((i - 1 + order[1]) % n) + 1] ]
    IN  IF order[2] THEN Reverse(rot) ELSE rot

\* fs::read_dir(dir): the names of the entries, in the order `order`.
ReadDir(node, order) ==
    LET present(n) == n \in DOMAIN node.entries
    IN  SelectSeq(OrderedNames(order), present)

\* The orders that list the entries of `node` differently, one of each.
DirOrders(node) ==
    LET all == { << r, back >> : r \in 0 .. (Len(NameListing) - 1), back \in BOOLEAN }
        listings == { ReadDir(node, o) : o \in all }
    IN  { CHOOSE o \in all : ReadDir(node, o) = l : l \in listings }

\* The directories below `node`, at any depth.
RECURSIVE DirsBelow(_)
DirsBelow(node) ==
    UNION { { node.entries[n] } \cup DirsBelow(node.entries[n]) :
              n \in { m \in DOMAIN node.entries : node.entries[m].kind = "dir" } }

\* Forwards and backwards, for the directories below the root: both when
\* they list some directory differently, else one.
BelowOrders(node) ==
    LET all == { << 0, FALSE >>, << 0, TRUE >> }
        listings(o) == [ d \in DirsBelow(node) |-> ReadDir(d, o) ]
    IN  { CHOOSE o \in all : listings(o) = l : l \in { listings(o) : o \in all } }

\* A size that counts the "tree <n>\0" header as well as the entries.
SizeWithHeader(bytes) ==
    Len(TREE_WORD \o << SP >> \o ToDecimal(Len(bytes)) \o << NUL >> \o bytes)

\* size: bytes.len()
TreeSize(bytes) == Len(bytes)

\* The bytes a tree is hashed and stored as: "tree <size>\0" and the entries.
TreeContent(size, objs) ==
    TREE_WORD \o << SP >> \o ToDecimal(size) \o << NUL >>
        \o Flatten([ i \in 1 .. Len(objs) |-> tree_content_bytes(objs[i]) ])

\* "blob <len>\0" and the file's bytes.
BlobContent(file_content) ==
    BLOB_WORD \o << SP >> \o ToDecimal(Len(file_content)) \o << NUL >> \o file_content

\* GitObject::from_path(path), `node` being what `path` names in the working
\* directory, `ignore` the IGNORE set; the root is read in the order `order`,
\* the directories below it in the order `below`.
RECURSIVE from_path(_, _, _, _, _)

\* The loop over read_dir: the entries path_in_ignore lets through, each
\* built by from_path, in the order of the enumeration.
KeptNames(path, node, ignore, order) ==
    LET kept(n) == ~path_in_ignore(Join(path, n), ignore)
    IN  SelectSeq(ReadDir(node, order), kept)
BuiltEntries(path, node, names, ignore, below) ==
    [ i \in 1 .. Len(names) |->
        from_path(Join(path, names[i]), node.entries[names[i]], ignore, below, below) ]

\* After the loop: the sorted objs, their bytes, the hash of the content.
TreeOfBytes(path, objs, bytes) ==
    Tree(SubDir, Some(LastComponentString(path)), TreeSize(bytes), objs,
         Some(compress_and_hash(
                  TREE_WORD \o << SP >> \o ToDecimal(Len(bytes)) \o << NUL >> \o bytes)[1]))
TreeOfObjs(path, objs) ==
    TreeOfBytes(path, objs,
                Flatten([ i \in 1 .. Len(objs) |-> tree_content_bytes(objs[i]) ]))
BlobOf(path, res) == Blob(FileBlob, LastComponentString(path), res[2], Some(res[1]))

from_path(path, node, ignore, order, below) ==
    IF node.kind = "dir"
    THEN TreeOfObjs(path,
                    sort(BuiltEntries(path, node, KeptNames(path, node, ignore, order),
                                      ignore, below)))
    ELSE BlobOf(path, compress_and_hash(BlobContent(node.content)))

\* ------------------------------------------------------------ the program

\* Bound of the model: the number of entries of the working directory's root.
MaxEntries == 2

HI == << 104, 105 >>
\* "a\n"  and  "#a\n ba/a \n"
GITIGNORE_A == << 97, 10 >>
GITIGNORE_BA_A == << 35, 97, 10, 32, 98, 97, 47, 97, 32, 10 >>

FileNode(content) == [ kind |-> "file", content |-> content, entries |-> << >> ]
DirNode(entries) == [ kind |-> "dir", content |-> << >>, entries |-> entries ]

\* What each name may be in the root of the working directory.
NodeChoices(name) ==
    IF name = NAME_A THEN { FileNode(HI), FileNode(<< >>) }
    ELSE IF name = NAME_BA
        THEN { FileNode(HI),
               DirNode(<< >>),
               DirNode([ n \in { NAME_A, NAME_GIT } |-> FileNode(HI) ]),
               DirNode([ n \in { NAME_BA } |->
                           DirNode([ m \in { NAME_A } |-> FileNode(<< >>) ]) ]) }
    ELSE IF name = NAME_GIT THEN { DirNode([ n \in { NAME_A } |-> FileNode(HI) ]) }
    ELSE IF name = NAME_FF THEN { FileNode(HI) }
    ELSE IF name = NAME_FE THEN { FileNode(<< >>) }
    ELSE { FileNode(GITIGNORE_A), FileNode(GITIGNORE_BA_A) }

RootNames == { NAME_A, NAME_BA, NAME_GIT, NAME_FF, NAME_FE, GITIGNORE }

\* The working directories of the model: at most MaxEntries of the names.
WorkTrees ==
    LET nodes == UNION { NodeChoices(n) : n \in RootNames }
        sets == { S \in SUBSET RootNames : Cardinality(S) <= MaxEntries }
    IN  { DirNode(f) :
            f \in UNION { { g \in [ S -> nodes ] : \A n \in S : g[n] \in NodeChoices(n) } :
                          S \in sets } }

VARIABLES
    worktree,   \* the user's files under ./ (the program never writes them)
    head,       \* .idiot/HEAD: None until init has made .idiot, objects, refs
    objects,    \* .idiot/objects: <<dir, file>> |-> the bytes of the file
    tree,       \* write-tree: the GitObject from_path returned, if it ran
    prevTree,   \* the GitObject of the write-tree before that
    written,    \* the keys the last command wrote under .idiot/objects
    last,       \* the last command: its name, argument, end, what it parsed
    given,      \* parser runs: the objects whose encoding is parsed
    framed,     \* ... written as the entries of a tree (or one entry alone)
    input,      \* ... the bytes handed to from_bytes, once encoded
    damage,     \* ... what was done to the bytes: <<kind, entry>>
    result,     \* ... what from_bytes returned, once it ran
    operands,   \* comparison runs: three objects
    ordering    \* ... the results of cmp on them, once it ran

cliVars == << worktree, head, objects, tree, prevTree, written, last >>
parseVars == << given, framed, input, damage, result >>
cmpVars == << operands, ordering >>
vars == << cliVars, parseVars, cmpVars >>

NoDamage == << "none", 0 >>
CliIdle ==
    /\ worktree = [ kind |-> "dir", content |-> << >>, entries |-> << >> ]
    /\ head = None
    /\ objects = << >>
    /\ tree = None
    /\ prevTree = None
    /\ written = << >>
    /\ last = [ cmd |-> "none", arg |-> << >>, status |-> "ok", parsed |-> None ]
ParseIdle ==
    /\ given = << >>
    /\ framed = FALSE
    /\ input = None
    /\ damage = NoDamage
    /\ result = None
CmpIdle ==
    /\ operands = << >>
    /\ ordering = None

Initialized == IsSome(head)

\* What ./ holds: the user's files and, after init, the .idiot directory
\* (its inside is never read by the model: the walk is meant to ignore it).
Cwd ==
    IF Initialized
    THEN DirNode([ n \in DOMAIN worktree.entries \cup { IDIOT } |->
                     IF n = IDIOT THEN DirNode(<< >>) ELSE worktree.entries[n] ])
    ELSE worktree

Outcome(cmd, arg, status, parsed) ==
    [ cmd |-> cmd, arg |-> arg, status |-> status, parsed |-> parsed ]

\* fs::write(OBJS/dir/file, data) after create_dir(OBJS/dir), an existing
\* directory being fine.
StoreWrite(store, key, data) ==
    [ k \in DOMAIN store \cup { key } |-> IF k = key THEN data ELSE store[k] ]

Init ==
    /\ worktree \in WorkTrees
    /\ head = None
    /\ objects = << >>
    /\ tree = None
    /\ prevTree = None
    /\ written = << >>
    /\ last = Outcome("none", << >>, "ok", None)
    /\ ParseIdle
    /\ CmpIdle

\* Command::Init: create_dir(..).unwrap() panics when .idiot is there.
CmdInit ==
    /\ head' = IF Initialized THEN head ELSE Some(HEAD_CONTENT)
    /\ written' = << >>
    /\ last' = Outcome("init", << >>, IF Initialized THEN "panic" ELSE "ok", None)
    /\ UNCHANGED << worktree, objects, tree, prevTree, parseVars, cmpVars >>

\* The files a user names to hash-object.
HashArgs == { NAME_A, NAME_BA }

\* Command::HashObject: the sha is taken of the compressed bytes of the file.
\* Reading a directory or a missing file fails, and so does create_dir before
\* init.
StoreEncoded(which, encoded, key) ==
    /\ objects' = StoreWrite(objects, key, encoded)
    /\ written' = << key >>
    /\ last' = Outcome("hash-object", which, "ok", None)
    /\ UNCHANGED << worktree, head, tree, prevTree, parseVars, cmpVars >>
HashObject(which) ==
    IF which \in DOMAIN Cwd.entries /\ Cwd.entries[which].kind = "file" /\ Initialized
    THEN \E encoded \in { compress_obj(Cwd.entries[which].content) } :
             StoreEncoded(which, encoded, SplitAt2(HexEncode(Sha1(encoded))))
    ELSE /\ last' = Outcome("hash-object", which, "err", None)
         /\ written' = << >>
         /\ UNCHANGED << worktree, head, objects, tree, prevTree, parseVars, cmpVars >>

\* The 40 hex digits a user names a tree by: those of the stored objects and
\* one that is not stored.
MissingSha == HexEncode([ i \in 1 .. SHA_SIZE |-> 255 ])
ShaArgs == { k[1] \o k[2] : k \in DOMAIN objects } \cup { MissingSha }

\* Command::LsTree: read, decompress, GitObject::from_bytes (the printing of
\* the parsed tree is not modelled).
ParsedOutcome(tree_sha, parsed) ==
    IF IsSome(parsed) THEN Outcome("ls-tree", tree_sha, "ok", parsed)
    ELSE Outcome("ls-tree", tree_sha, "panic", None)
DecodedOutcome(tree_sha, encoded) ==
    IF IsSome(encoded) THEN ParsedOutcome(tree_sha, from_bytes(Unwrap(encoded)))
    ELSE Outcome("ls-tree", tree_sha, "err", None)
LsTree(tree_sha) ==
    /\ last' = IF SplitAt2(tree_sha) \in DOMAIN objects
               THEN DecodedOutcome(tree_sha, decomp_obj(objects[SplitAt2(tree_sha)]))
               ELSE Outcome("ls-tree", tree_sha, "err", None)
    /\ written' = << >>
    /\ UNCHANGED << worktree, head, objects, tree, prevTree, parseVars, cmpVars >>

\* Command::WriteTree: from_path("./"), then the root tree alone is encoded
\* again from size and objs, compressed and written under its sha.
PersistTree(built, key) ==
    /\ tree' = Some(built)
    /\ prevTree' = tree
    /\ IF Initialized
       THEN /\ objects' = StoreWrite(objects, key,
                                     compress_obj(TreeContent(built.size, built.objs)))
            /\ written' = << key >>
            /\ last' = Outcome("write-tree", << >>, "ok", None)
       ELSE /\ objects' = objects
            /\ written' = << >>
            /\ last' = Outcome("write-tree", << >>, "err", None)
    /\ UNCHANGED << worktree, head, parseVars, cmpVars >>
WriteTree(order, below) ==
    \E built \in { from_path(CUR_DIR, Cwd, IGNORE(Cwd), order, below) } :
        PersistTree(built, SplitAt2(HexEncode(Unwrap(built.sha))))

Next ==
    \/ CmdInit
    \/ \E which \in HashArgs : HashObject(which)
    \/ \E tree_sha \in ShaArgs : LsTree(tree_sha)
    \/ \E order \in DirOrders(Cwd), below \in BelowOrders(Cwd) : WriteTree(order, below)

Spec == Init /\ [][Next]_vars

\* ---------------------------------------------------------- parser runs

\* Bound of the parser runs: the entries of a parsed tree.
MaxParseEntries == 2

\* Twenty hash bytes: letters, but for the byte `val` at place `pos`.
HashWith(pos, val) == [ i \in 1 .. SHA_SIZE |-> IF i = pos THEN val ELSE 103 + i ]
HashSamples ==
    { HashWith(0, 0), HashWith(1, NUL), HashWith(SHA_SIZE, NUL), HashWith(10, SP) }

NAME_A_B == << 97, 32, 98 >>

\* The objects whose encoding is parsed: a file or a directory entry named
\* "a" or "a b", with a sample hash or none (a deletion marker).
EntryObject(mode, path, sha) ==
    IF mode = SubDir THEN Tree(mode, Some(path), 0, << >>, sha)
    ELSE Blob(mode, path, << >>, sha)
GivenObjects ==
    { EntryObject(m, p, sh) :
        m \in { FileBlob, SubDir }, p \in { NAME_A, NAME_A_B },
        sh \in { Some(h) : h \in HashSamples } \cup { None } }

\* How the bytes of one entry are damaged before they are parsed.
DamageKinds == { "mode", "code", "nul", "hash" }
MODE_X == 120
DamagedEntry(bytes, kind) ==
    IF kind = "mode" THEN << MODE_X >> \o Tail(bytes)
    ELSE IF kind = "code"
        THEN [ bytes EXCEPT ![FindFirst(bytes, SP) - 1] = 49 ]
    ELSE IF kind = "nul"
        THEN Take(bytes, FindFirst(bytes, NUL) - 1) \o Drop(bytes, FindFirst(bytes, NUL))
    ELSE IF kind = "hash" THEN Take(bytes, Len(bytes) - 1)
    ELSE bytes

\* The entries as tree_content_bytes writes them, entry `dmg[2]` damaged.
EntryBytes(objs, dmg) ==
    [ i \in 1 .. Len(objs) |->
        IF i = dmg[2] THEN DamagedEntry(tree_content_bytes(objs[i]), dmg[1])
        ELSE tree_content_bytes(objs[i]) ]

\* The bytes to parse: one entry alone, or "tree <size>\0" and the entries;
\* the damage "size" puts an x where the size starts.
FramedBytes(body, dmg) ==
    TREE_WORD \o << SP >>
        \o (IF dmg[1] = "size" THEN << MODE_X >> ELSE << >>)
        \o ToDecimal(Len(body)) \o << NUL >> \o body
InputBytes(objs, asTree, dmg) ==
    IF asTree THEN FramedBytes(Flatten(EntryBytes(objs, dmg)), dmg)
    ELSE EntryBytes(objs, dmg)[1]

\* A hash can lose a byte when there is one; the separator is missing only
\* when the hash holds no NUL of its own.
CanDamage(o, kind) ==
    /\ kind = "hash" => IsSome(o.sha)
    /\ kind = "nul" => IsSome(o.sha) /\ NUL \notin SeqRange(Unwrap(o.sha))

InitParse ==
    /\ CliIdle
    /\ CmpIdle
    /\ given \in UNION { [ 1 .. n -> GivenObjects ] : n \in 1 .. MaxParseEntries }
    /\ framed \in BOOLEAN
    /\ framed \/ Len(given) = 1
    /\ input = None
    /\ damage = NoDamage
    /\ result = None

\* tree_content_bytes of every object, behind a tree header when framed.
Encode ==
    /\ input = None
    /\ input' = Some(InputBytes(given, framed, NoDamage))
    /\ UNCHANGED << given, framed, damage, result, cliVars, cmpVars >>

\* One entry of the encoded bytes is damaged.
DamageEntry(kind, e) ==
    /\ IsSome(input) /\ damage = NoDamage /\ result = None
    /\ CanDamage(given[e], kind)
    /\ damage' = << kind, e >>
    /\ input' = Some(InputBytes(given, framed, << kind, e >>))
    /\ UNCHANGED << given, framed, result, cliVars, cmpVars >>

\* The size of the tree header is damaged.
DamageSize ==
    /\ IsSome(input) /\ damage = NoDamage /\ result = None
    /\ framed
    /\ damage' = << "size", 0 >>
    /\ input' = Some(InputBytes(given, framed, << "size", 0 >>))
    /\ UNCHANGED << given, framed, result, cliVars, cmpVars >>

\* GitObject::from_bytes(input)
Parse ==
    /\ IsSome(input) /\ result = None
    /\ result' = Some(from_bytes(Unwrap(input)))
    /\ UNCHANGED << given, framed, input, damage, cliVars, cmpVars >>

NextParse ==
    \/ Encode
    \/ \E kind \in DamageKinds, e \in 1 .. Len(given) : DamageEntry(kind, e)
    \/ DamageSize
    \/ Parse

SpecParse == InitParse /\ [][NextParse]_vars

\* ------------------------------------------------------ comparison runs

CmpObjects ==
    { Blob(FileBlob, NAME_A, << >>, None),
      Blob(FileBlob, NAME_BA, << >>, None),
      Tree(SubDir, Some(NAME_A), 0, << >>, None),
      Tree(SubDir, Some(NAME_A_B), 0, << >>, None),
      Tree(SubDir, None, 0, << >>, None),
      Commit }

InitCmp ==
    /\ CliIdle
    /\ ParseIdle
    /\ operands \in [ 1 .. 3 -> CmpObjects ]
    /\ ordering = None

\* Ord::cmp on every pair of the three operands.
Compare ==
    /\ ordering = None
    /\ ordering' = Some([ i \in 1 .. 3 |-> [ j \in 1 .. 3 |-> cmp(operands[i], operands[j]) ] ])
    /\ UNCHANGED << operands, cliVars, parseVars >>

\* objs.sort() on the three operands.
SortOperands ==
    /\ IsSome(ordering)
    /\ operands' = sort(operands)
    /\ ordering' = None
    /\ UNCHANGED << cliVars, parseVars >>

NextCmp == Compare \/ SortOperands

SpecCmp == InitCmp /\ [][NextCmp]_vars

\* ----------------------------------------------------------------- claims

\* Every object of a built graph: the object, its children, theirs.
RECURSIVE ObjectsOf(_)
ObjectsOf(o) == { o } \cup UNION { ObjectsOf(o.objs[i]) : i \in 1 .. Len(o.objs) }
TreesOf(o) == { t \in ObjectsOf(o) : t.tag = "Tree" }
KeyOf(o) == SplitAt2(HexEncode(Unwrap(o.sha)))

BuiltRoot == Unwrap(tree)
WroteTree == last.cmd = "write-tree" /\ last.status = "ok"

SameEntry(b, p) ==
    b.mode = p.mode /\ b.path = p.path /\ b.tag = p.tag /\ b.sha = p.sha

\* C1: ls-tree of the sha write-tree stored the root under parses the stored
\* bytes into an object with the mode, path, kind and hash of the built
\* tree, and children with the mode, path, kind and hash of the built
\* children, in the same order.
C1_RoundTrip ==
    ( /\ IsSome(tree)
      /\ last.cmd = "ls-tree"
      /\ last.arg = HexEncode(Unwrap(BuiltRoot.sha))
      /\ SplitAt2(last.arg) \in DOMAIN objects )
    => /\ last.status = "ok"
       /\ SameEntry(BuiltRoot, Unwrap(last.parsed))
       /\ Len(Unwrap(last.parsed).objs) = Len(BuiltRoot.objs)
       /\ \A i \in 1 .. Len(BuiltRoot.objs) :
              SameEntry(BuiltRoot.objs[i], Unwrap(last.parsed).objs[i])

\* The bytes are "<word> <len>\0" followed by exactly len bytes.
HasHeader(b, word) ==
    /\ FindFirst(b, NUL) > 0
    /\ Take(b, FindFirst(b, NUL) - 1)
           = word \o << SP >> \o ToDecimal(Len(b) - FindFirst(b, NUL))

\* C2: every file of the object store decompresses to a canonical object
\* ("blob <len>\0"+content or "tree <len>\0"+entries) and is named by the hex
\* of the hash of those uncompressed bytes.
C2_ContentAddressed ==
    \A k \in DOMAIN objects :
        /\ IsSome(decomp_obj(objects[k]))
        /\ \/ HasHeader(Unwrap(decomp_obj(objects[k])), BLOB_WORD)
           \/ HasHeader(Unwrap(decomp_obj(objects[k])), TREE_WORD)
        /\ k = SplitAt2(HexEncode(Sha1(Unwrap(decomp_obj(objects[k])))))

\* C3: when write-tree has finished well, every object of the built tree
\* (root, subtrees, blobs) is in the store under its hash, and the command
\* wrote each hash exactly once.
C3_AllPersisted ==
    WroteTree =>
        \A o \in ObjectsOf(BuiltRoot) :
            /\ KeyOf(o) \in DOMAIN objects
            /\ Cardinality({ i \in 1 .. Len(written) : written[i] = KeyOf(o) }) = 1

\* C4: two builds of the same working directory, whatever order read_dir
\* lists the entries in, return the same object graph (children order, bytes
\* and hashes).
C4_Deterministic == (IsSome(tree) /\ IsSome(prevTree)) => tree = prevTree

\* The text of the path of an entry reached by `names` from "./".
RECURSIVE SlashJoined(_)
SlashJoined(names) ==
    IF Len(names) = 1 THEN names[1]
    ELSE names[1] \o << SLASH >> \o SlashJoined(Tail(names))
PathText(names) == CUR_DIR \o SlashJoined(names)

\* The non-empty pieces of a pattern between slashes.
PatternNames(pat) == LET full(x) == x # << >> IN SelectSeq(Split(pat, SLASH), full)

\* The pattern, as names, is the tail of the names of the path.
WholeNames(names, pat) ==
    /\ Len(PatternNames(pat)) <= Len(names)
    /\ SubSeq(names, Len(names) - Len(PatternNames(pat)) + 1, Len(names))
           = PatternNames(pat)

\* Whether the rule leaves the entry out: "text" is the suffix match on the
\* path's text, "names" the match of whole trailing names.
LeftOut(rule, names, ignore) ==
    IF rule = "text" THEN \E pat \in ignore : BytesEndWith(PathText(names), pat)
    ELSE \E pat \in ignore : WholeNames(names, pat)

\* Bytes of the entry of a directory's child: mode, space, name, NUL, hash.
EntryLength(modeDigits, nameLen) == modeDigits + 1 + nameLen + 1 + SHA_SIZE

RECURSIVE SumOver(_, _)
SumOver(S, f) ==
    IF S = { } THEN 0
    ELSE LET n == CHOOSE m \in S : TRUE IN f[n] + SumOver(S \ { n }, f)

\* The tree t built of directory d (reached by `names`) holds exactly the
\* entries the rule does not leave out, in count, names and size, and so do
\* its subtrees.
RECURSIVE Filtered(_, _, _, _, _)
Filtered(rule, names, d, t, ignore) ==
    LET inc == { n \in DOMAIN d.entries : ~LeftOut(rule, Append(names, n), ignore) }
    IN  /\ Len(t.objs) = Cardinality(inc)
        /\ { Unwrap(t.objs[i].path) : i \in 1 .. Len(t.objs) }
               = { to_string_lossy(n) : n \in inc }
        /\ t.size = SumOver(inc,
                            [ n \in inc |->
                                EntryLength(IF d.entries[n].kind = "dir" THEN 5 ELSE 6,
                                            Len(to_string_lossy(n))) ])
        /\ \A n \in inc :
               d.entries[n].kind = "dir" =>
                   \E i \in 1 .. Len(t.objs) :
                       /\ t.objs[i].tag = "Tree"
                       /\ t.objs[i].path = Some(to_string_lossy(n))
                       /\ Filtered(rule, Append(names, n), d.entries[n], t.objs[i], ignore)

RECURSIVE SumEntryLengths(_)
SumEntryLengths(objs) ==
    IF objs = << >> THEN 0
    ELSE EntryLength(IF Head(objs).mode < 100000 THEN 5 ELSE 6,
                     Len(Unwrap(Head(objs).path)))
             + SumEntryLengths(Tail(objs))

\* The bytes "tree <n>\0" and the entries of t, n being a given number.
TreeBytesWith(n, t) ==
    TREE_WORD \o << SP >> \o ToDecimal(n) \o << NUL >>
        \o Flatten([ i \in 1 .. Len(t.objs) |-> tree_content_bytes(t.objs[i]) ])

\* C7: every tree from_path returns, at every depth, has as size the byte
\* length of its direct children's entries (mode, space, name, NUL, 20 hash
\* bytes); that number is the one in the "tree <size>\0" header its hash is
\* taken of, and in the header write-tree stores for the root.
C7_SizeIsEntryBytes ==
    IsSome(tree) =>
        /\ \A t \in TreesOf(BuiltRoot) :
               /\ t.size = SumEntryLengths(t.objs)
               /\ t.sha = Some(Sha1(TreeBytesWith(SumEntryLengths(t.objs), t)))
        /\ WroteTree =>
               decomp_obj(objects[KeyOf(BuiltRoot)])
                   = Some(TreeBytesWith(SumEntryLengths(BuiltRoot.objs), BuiltRoot))

\* The file bytes below a node, the total a recursive size would be.
RECURSIVE FileBytesBelow(_)
FileBytesBelow(node) ==
    IF node.kind = "file" THEN Len(node.content)
    ELSE SumOver(DOMAIN node.entries,
                 [ n \in DOMAIN node.entries |-> FileBytesBelow(node.entries[n]) ])

\* C7 witness: write-tree stored a root that holds a subtree with a child of
\* its own, and the root's size is not the total of the file bytes below.
C7_Witness ==
    /\ WroteTree
    /\ \E t \in TreesOf(BuiltRoot) : t # BuiltRoot /\ t.objs # << >>
    /\ BuiltRoot.size # FileBytesBelow(worktree)

\* C5: the encoding tree_content_bytes writes of an object without a hash
\* parses, alone and as an entry of a tree, into an object of the same mode
\* and path with no hash, without a panic.
C5_DeletionMarker ==
    (IsSome(result) /\ damage = NoDamage) =>
        \A i \in 1 .. Len(given) :
            given[i].sha = None =>
                /\ IsSome(Unwrap(result))
                /\ framed => Len(Unwrap(Unwrap(result)).objs) >= i
                /\ LET e == IF framed THEN Unwrap(Unwrap(result)).objs[i]
                            ELSE Unwrap(Unwrap(result))
                   IN  e.mode = given[i].mode /\ e.path = given[i].path /\ e.sha = None

\* C8: a tree body of k entries with 20 hash bytes each, whatever their
\* values, parses into exactly k children, the i-th with the i-th entry's
\* mode, path and hash bytes.
C8_EntryBoundaries ==
    ( /\ IsSome(result)
      /\ damage = NoDamage
      /\ framed
      /\ \A i \in 1 .. Len(given) : IsSome(given[i].sha) )
    => /\ IsSome(Unwrap(result))
       /\ Len(Unwrap(Unwrap(result)).objs) = Len(given)
       /\ \A i \in 1 .. Len(given) :
              /\ Unwrap(Unwrap(result)).objs[i].mode = given[i].mode
              /\ Unwrap(Unwrap(result)).objs[i].path = given[i].path
              /\ Unwrap(Unwrap(result)).objs[i].sha = given[i].sha

\* C10: from_bytes returns no object for malformed bytes: a size or mode that
\* is no number, an unknown mode, a missing NUL, a hash cut short.
C10_FailFast == (IsSome(result) /\ damage # NoDamage) => Unwrap(result) = None

Flip(ord) == IF ord = Less THEN Greater ELSE IF ord = Greater THEN Less ELSE Equal

\* C9: cmp is a total order on all objects: cmp(a, a) is Equal, cmp(a, b) is
\* the reverse of cmp(b, a), it is transitive, and objects with paths go by
\* the bytes of their paths.
C9_TotalOrder ==
    IsSome(ordering) =>
        /\ \A i \in 1 .. 3 : Unwrap(ordering)[i][i] = Equal
        /\ \A i, j \in 1 .. 3 : Unwrap(ordering)[i][j] = Flip(Unwrap(ordering)[j][i])
        /\ \A i, j, k \in 1 .. 3 :
               (Unwrap(ordering)[i][j] # Greater /\ Unwrap(ordering)[j][k] # Greater)
                   => Unwrap(ordering)[i][k] # Greater
        /\ \A i, j \in 1 .. 3 :
               (HasPath(operands[i]) /\ HasPath(operands[j]))
                   => Unwrap(ordering)[i][j]
                          = CmpBytes(Unwrap(operands[i].path), Unwrap(operands[j].path))

====
